---- MODULE Spec2Model ----
(***************************************************************************)
(* Help-desk backend: the ticket lifecycle handlers of tickets/views.py    *)
(* over the tables of tickets/models.py, with the role checks of           *)
(* accounts/permissions.py.                                                *)
(*                                                                         *)
(* Every request handler is one atomic action.  timezone.now() is the      *)
(* variable `now`; a handler that reads the clock stamps its rows with     *)
(* `now` and leaves the clock one instant later, so two requests never     *)
(* read the same instant.  NULL columns are None (ids) and NoTime (dates). *)
(* Free-text columns that no handler reads back (title, description,       *)
(* category, names and e-mail snapshots) are left out of the rows.         *)
(*                                                                         *)
(* Spec        create / assign / status, the status state machine          *)
(* SpecSat     create / status / satisfaction                              *)
(* SpecDesk    create / update / assign / status / comment / SLA config    *)
(* SpecSla     create / assign / status over a configured SLA table        *)
(* SpecNotify  the notification helpers applied to a populated desk        *)
(* SpecInbox   status-change notifications and the recipients' inbox       *)
(* SpecKb      the knowledge base: articles, publication, feedback         *)
(* SpecRace    the status change statement by statement, two workers       *)
(***************************************************************************)
EXTENDS Integers, Sequences, FiniteSets, TLC

\* ---------------------------------------------------------------- bounds
MaxTickets == 1      \* rows the Ticket table may hold
MaxClock   == 4      \* last instant at which a request is served
MaxArticles == 2     \* rows the KnowledgeArticle table may hold

\* ------------------------------------------------------- program values
\* accounts/models.py User.Role
END_USER      == "end_user"
SUPPORT_STAFF == "support_staff"
MANAGER       == "manager"
ADMIN         == "admin"

\* tickets/models.py TicketStatus
TicketStatus == {"new", "assigned", "in_progress", "pending_user", "resolved", "closed"}

\* a request body value outside the ChoiceField of TicketStatusChangeSerializer
BadStatus == "bogus"

None   == "none"
NoTime == 0

\* the NULL of Ticket.satisfaction_rating, below every accepted rating
NoRating == 0

\* an optional request field that the body leaves out
Absent == "absent"

\* tickets/models.py TicketPriority, and the column default
TicketPriority  == {"low", "medium", "high", "urgent"}
DefaultPriority == "medium"

\* TicketSatisfactionSerializer: IntegerField(min_value=1, max_value=5)
MinRating == 1
MaxRating == 5

\* the authenticated accounts that send requests, and their role column
Users == {"alice", "sam", "mia", "ada"}

Role ==
  [u \in Users |->
     CASE u = "alice" -> END_USER
       [] u = "sam"   -> SUPPORT_STAFF
       [] u = "mia"   -> MANAGER
       [] u = "ada"   -> ADMIN]

\* the accounts that open tickets: one end user, one member of staff
Requesters == {"alice", "sam"}

\* values a client sends as assignee_id / team_id (free CharFields)
AssigneeIds == {"sam", "mia"}
TeamIds     == {"team1"}

TicketIds == 1..MaxTickets

\* ------------------------------------------------------------ the state
VARIABLES
  tickets,    \* Ticket table: sequence of rows, the row's index is its id
  history,    \* TicketStatusHistory table, in insertion order
  now,        \* the next value timezone.now() returns
  response,   \* the last request's endpoint and the HTTP status it was answered with
  comments,   \* TicketComment table, in insertion order
  sla,        \* SLAConfig table: one row per priority
  active,     \* User.is_active of every user
  prefs,      \* NotificationPreference row of every user
  notifications,  \* Notification table, in insertion order
  outbox,     \* the calls of send_mail, in order, each delivered or failed
  undeliverable,  \* the users for whom send_mail raises
  articles,   \* KnowledgeArticle table; the primary key is the position
  inflight    \* status-change requests in progress, by worker

\* what no ticket endpoint reads or writes
notifyVars == <<active, prefs, notifications, outbox, undeliverable, articles,
                inflight>>

vars == <<tickets, history, now, response, comments, sla, notifyVars>>

\* the workers that serve requests side by side
Workers == {1, 2}

\* a worker that holds no request
Idle == [pc |-> "idle"]

NoRequests == [w \in Workers |-> Idle]

\* ------------------------------------------------------ permission checks
IsAdminOrManager(u) == Role[u] \in {ADMIN, MANAGER}

\* the endpoint guarded by IsAuthenticated alone
IsStaffMemberAnyUser(u) == u \in Users

IsStaffMember(u) == Role[u] \in {ADMIN, MANAGER, SUPPORT_STAFF}

is_staff(u) == Role[u] \in {ADMIN, MANAGER, SUPPORT_STAFF}

is_owner(u, t) == tickets[t].requester_id = u

\* get_object_or_404(Ticket, id=ticket_id)
Exists(t) == t \in DOMAIN tickets

Reply(op, code) == [op |-> op, code |-> code]

\* the rows of the history table that belong to ticket t, in order
HistoryOf(t) == SelectSeq(history, LAMBDA h : h.ticket = t)

\* the status written without looking at the current one
StatusAfterAssignAlways(status) == "assigned"

\* if ticket.status == "new": ticket.status = "assigned"
StatusAfterAssign(status) == IF status = "new" THEN "assigned" ELSE status

\* the history row written on every request
StatusChangedAlways(old_status, new_status) == TRUE

\* if old_status != new_status:
StatusChanged(old_status, new_status) == old_status # new_status

\* from_status read from ticket.status after it was overwritten
HistoryRowAfterWrite(t, old_status, new_status, u, at) ==
  [ticket        |-> t,
   from_status   |-> new_status,
   to_status     |-> new_status,
   changed_by_id |-> u,
   changed_at    |-> at]

\* TicketStatusHistory.objects.create(...)
HistoryRow(t, old_status, new_status, u, at) ==
  [ticket        |-> t,
   from_status   |-> old_status,
   to_status     |-> new_status,
   changed_by_id |-> u,
   changed_at    |-> at]

\* requests are served while the clock is within the horizon
InService == now <= MaxClock

\* the toggles of a NotificationPreference row, per channel
PrefKeys == {"ticket_created", "ticket_assigned", "ticket_status_changed",
             "ticket_comment", "sla_warning", "system"}

\* the row get_or_create inserts: the toggles that default to True
DefaultPreference == [email |-> PrefKeys \ {"system"}, inapp |-> PrefKeys]

\* migration 0006: the rows create_default_sla_configs inserts (hours)
DefaultSLAConfigs ==
  [p \in TicketPriority |->
     CASE p = "urgent" -> [response_time |-> 1,  resolution_time |-> 4,  is_active |-> TRUE]
       [] p = "high"   -> [response_time |-> 4,  resolution_time |-> 8,  is_active |-> TRUE]
       [] p = "medium" -> [response_time |-> 8,  resolution_time |-> 24, is_active |-> TRUE]
       [] p = "low"    -> [response_time |-> 24, resolution_time |-> 72, is_active |-> TRUE]]

\* ------------------------------------------------------------- handlers
Init ==
  /\ tickets = << >>
  /\ history = << >>
  /\ now = 1
  /\ response = Reply("none", 0)
  /\ comments = << >>
  /\ sla = DefaultSLAConfigs
  /\ active = [u \in Users |-> TRUE]
  /\ prefs = [u \in Users |-> DefaultPreference]
  /\ notifications = << >>
  /\ outbox = << >>
  /\ undeliverable = {}
  /\ articles = << >>
  /\ inflight = NoRequests

\* POST tickets/ : any authenticated user; the row is saved with status new
\* and the caller as requester.  No history row is written.
TicketCreate(u, p) ==
  /\ InService
  /\ Len(tickets) < MaxTickets
  /\ tickets' = Append(tickets,
       [status                  |-> "new",
        priority                |-> p,
        requester_id            |-> u,
        assignee_id             |-> None,
        team_id                 |-> None,
        sla_response_deadline   |-> NoTime,
        sla_resolution_deadline |-> NoTime,
        sla_breached            |-> FALSE,
        satisfaction_rating     |-> NoRating,
        satisfaction_comment    |-> None,
        resolved_at             |-> NoTime,
        closed_at               |-> NoTime,
        created_at              |-> now,
        updated_at              |-> now])
  /\ now' = now + 1
  /\ response' = Reply("create", 200)
  /\ UNCHANGED <<history, comments, sla, notifyVars>>

\* POST tickets/<id>/assign
TicketAssign(u, t, a, tm) ==
  /\ InService
  /\ IF ~IsAdminOrManager(u) THEN
       /\ response' = Reply("assign", 403)
       /\ UNCHANGED <<tickets, history, now>>
     ELSE IF ~Exists(t) THEN
       /\ response' = Reply("assign", 404)
       /\ UNCHANGED <<tickets, history, now>>
     ELSE
       /\ response' = Reply("assign", 200)
       /\ now' = now + 1
       /\ tickets' = [tickets EXCEPT ![t] =
            [@ EXCEPT !.assignee_id = a,
                      !.team_id     = tm,
                      !.status      = StatusAfterAssign(@),
                      !.updated_at  = now]]
       /\ UNCHANGED history
  /\ UNCHANGED <<comments, sla, notifyVars>>

\* POST tickets/<id>/status
TicketStatusChange(u, t, s) ==
  /\ InService
  /\ IF ~IsStaffMember(u) THEN
       /\ response' = Reply("status", 403)
       /\ UNCHANGED <<tickets, history, now>>
     ELSE IF ~Exists(t) THEN
       /\ response' = Reply("status", 404)
       /\ UNCHANGED <<tickets, history, now>>
     ELSE IF s \notin TicketStatus THEN
       /\ response' = Reply("status", 400)
       /\ UNCHANGED <<tickets, history, now>>
     ELSE
       LET old_status == tickets[t].status
           new_status == s
       IN
       /\ response' = Reply("status", 200)
       /\ now' = now + 1
       /\ IF StatusChanged(old_status, new_status)
          THEN /\ history' = Append(history, HistoryRow(t, old_status, new_status, u, now))
               /\ tickets' = [tickets EXCEPT ![t] =
                    [@ EXCEPT !.status      = new_status,
                              !.resolved_at = IF new_status = "resolved" THEN now ELSE @,
                              !.closed_at   = IF new_status = "closed" THEN now ELSE @,
                              !.updated_at  = now]]
          ELSE /\ history' = history
               /\ tickets' = [tickets EXCEPT ![t] = [@ EXCEPT !.updated_at = now]]
  /\ UNCHANGED <<comments, sla, notifyVars>>

\* TicketSatisfactionSerializer.rating accepts exactly MinRating..MaxRating
ValidRating(r) == r \in MinRating..MaxRating

\* the mutation: staff may rate a ticket they do not own
MayRateOrStaff(u, t) == is_owner(u, t) \/ is_staff(u)

\* TicketSatisfactionView.post: the only gate is _is_owner
MayRate(u, t) == is_owner(u, t)

\* the mutation: the first rating is kept
RatingAfterFirstWins(old, r) == IF old = NoRating THEN r ELSE old

\* TicketSatisfactionView.post: the rating column is overwritten
RatingAfter(old, r) == r

\* POST tickets/<id>/satisfaction with body {rating: r, comment: c};
\* c = Absent is a body without the comment field (data.get gives None)
TicketSatisfaction(u, t, r, c) ==
  /\ InService
  /\ IF ~Exists(t)
       THEN /\ response' = Reply("satisfaction", 404)
            /\ UNCHANGED <<tickets, now>>
       ELSE IF ~MayRate(u, t)
       THEN /\ response' = Reply("satisfaction", 403)
            /\ UNCHANGED <<tickets, now>>
       ELSE IF ~ValidRating(r)
       THEN /\ response' = Reply("satisfaction", 400)
            /\ UNCHANGED <<tickets, now>>
       ELSE /\ response' = Reply("satisfaction", 200)
            /\ tickets' = [tickets EXCEPT ![t] =
                 [@ EXCEPT !.satisfaction_rating  = RatingAfter(@, r),
                           !.satisfaction_comment = IF c = Absent THEN None ELSE c,
                           !.updated_at           = now]]
            /\ now' = now + 1
  /\ UNCHANGED <<history, comments, sla, notifyVars>>

\* TicketUpdateSerializer: priority is a ChoiceField over TicketPriority
ValidUpdate(body) == body.priority \in TicketPriority \cup {Absent}

\* a column after PUT: replaced when the body carries the field
Updated(old, field) == IF field = Absent THEN old ELSE field

\* PUT tickets/<id> with body {priority, assignee_id, team_id}, each optional;
\* permission_classes is IsAuthenticated alone, so every user passes
TicketUpdate(u, t, body) ==
  /\ InService
  /\ IF ~Exists(t)
       THEN /\ response' = Reply("update", 404)
            /\ UNCHANGED <<tickets, now>>
       ELSE IF ~ValidUpdate(body)
       THEN /\ response' = Reply("update", 400)
            /\ UNCHANGED <<tickets, now>>
       ELSE /\ response' = Reply("update", 200)
            /\ tickets' = [tickets EXCEPT ![t] =
                 [@ EXCEPT !.priority    = Updated(@, body.priority),
                           !.assignee_id = Updated(@, body.assignee_id),
                           !.team_id     = Updated(@, body.team_id),
                           !.updated_at  = now]]
            /\ now' = now + 1
  /\ UNCHANGED <<history, comments, sla, notifyVars>>

\* TicketCommentCreateView.post: staff or the ticket's owner may comment
MayComment(u, t) == is_staff(u) \/ is_owner(u, t)

\* TicketCommentCreateSerializer: content is required and not blank
ValidComment(content) == content # ""

\* the is_internal the row is created with: data.get("is_internal", False),
\* the field being the JSON literal "true" or "false" when present
InternalFlag(internal) == IF internal = Absent THEN FALSE ELSE internal = "true"

\* POST tickets/<id>/comments with body {content, is_internal}
TicketCommentCreate(u, t, content, internal) ==
  /\ InService
  /\ IF ~Exists(t)
       THEN /\ response' = Reply("comment", 404)
            /\ UNCHANGED <<comments, now>>
       ELSE IF ~MayComment(u, t)
       THEN /\ response' = Reply("comment", 403)
            /\ UNCHANGED <<comments, now>>
       ELSE IF ~ValidComment(content)
       THEN /\ response' = Reply("comment", 400)
            /\ UNCHANGED <<comments, now>>
       ELSE /\ response' = Reply("comment", 200)
            /\ comments' = Append(comments,
                 [ticket      |-> t,
                  is_internal |-> InternalFlag(internal),
                  author_id   |-> u,
                  created_at  |-> now])
            /\ now' = now + 1
  /\ UNCHANGED <<tickets, history, sla, notifyVars>>

Next ==
  \/ \E u \in Requesters : TicketCreate(u, DefaultPriority)
  \/ \E u \in Users, t \in TicketIds, a \in AssigneeIds, tm \in TeamIds :
       TicketAssign(u, t, a, tm)
  \/ \E u \in Users, t \in TicketIds, s \in TicketStatus \cup {BadStatus} :
       TicketStatusChange(u, t, s)

Spec == Init /\ [][Next]_vars

\* the agents working the desk: a support_staff user and a manager
Agents == {"sam", "mia"}

\* PUT sla/configs/<id> on the row of priority p with body row
\* {responseTime, resolutionTime, isActive}; save() stamps updated_at
SLAConfigUpdate(u, p, row) ==
  /\ InService
  /\ IF ~IsAdminOrManager(u)
       THEN /\ response' = Reply("sla", 403)
            /\ UNCHANGED <<sla, now>>
       ELSE /\ response' = Reply("sla", 200)
            /\ sla' = [sla EXCEPT ![p] = row]
            /\ now' = now + 1
  /\ UNCHANGED <<tickets, history, comments, notifyVars>>

\* ---------------------------------------------------- the whole help desk
\* request inputs of the desk
DeskPriorities == {"urgent", DefaultPriority}
UpdateBodies ==
  { [priority |-> Absent,   assignee_id |-> Absent, team_id |-> Absent],
    [priority |-> "urgent", assignee_id |-> Absent, team_id |-> Absent],
    [priority |-> "bogus",  assignee_id |-> Absent, team_id |-> Absent],
    [priority |-> Absent,   assignee_id |-> "sam",  team_id |-> "team1"],
    [priority |-> Absent,   assignee_id |-> None,   team_id |-> Absent] }
Contents      == {"hello", ""}
InternalFlags == {Absent, "true", "false"}
SlaRows ==
  { [response_time |-> 1, resolution_time |-> 1, is_active |-> TRUE],
    [response_time |-> 1, resolution_time |-> 2, is_active |-> FALSE] }

NextDesk ==
  \/ \E u \in Requesters, p \in DeskPriorities : TicketCreate(u, p)
  \/ \E u \in Users, t \in TicketIds, body \in UpdateBodies :
       TicketUpdate(u, t, body)
  \/ \E u \in Users, t \in TicketIds, a \in AssigneeIds, tm \in TeamIds :
       TicketAssign(u, t, a, tm)
  \/ \E u \in Agents, t \in TicketIds, s \in {"in_progress", "resolved"} :
       TicketStatusChange(u, t, s)
  \/ \E u \in Users, t \in TicketIds, c \in Contents, i \in InternalFlags :
       TicketCommentCreate(u, t, c, i)
  \/ \E u \in Agents, p \in DeskPriorities, row \in SlaRows :
       SLAConfigUpdate(u, p, row)

SpecDesk == Init /\ [][NextDesk]_vars

\* -------------------------------------------- a desk with short SLA hours
\* SLAConfig tables a manager has configured before the desk opens
SlaTables ==
  { DefaultSLAConfigs,
    [DefaultSLAConfigs EXCEPT
       !["urgent"] = [response_time |-> 1, resolution_time |-> 1, is_active |-> TRUE]],
    [DefaultSLAConfigs EXCEPT
       !["urgent"] = [response_time |-> 1, resolution_time |-> 1, is_active |-> FALSE]] }

InitSla ==
  /\ tickets = << >>
  /\ history = << >>
  /\ now = 1
  /\ response = Reply("none", 0)
  /\ comments = << >>
  /\ sla \in SlaTables
  /\ active = [u \in Users |-> TRUE]
  /\ prefs = [u \in Users |-> DefaultPreference]
  /\ notifications = << >>
  /\ outbox = << >>
  /\ undeliverable = {}
  /\ articles = << >>
  /\ inflight = NoRequests

NextSla ==
  \/ \E u \in Requesters, p \in DeskPriorities : TicketCreate(u, p)
  \/ \E u \in Agents, t \in TicketIds, a \in AssigneeIds, tm \in TeamIds :
       TicketAssign(u, t, a, tm)
  \/ \E u \in Agents, t \in TicketIds, s \in TicketStatus :
       TicketStatusChange(u, t, s)

SpecSla == InitSla /\ [][NextSla]_vars

\* ------------------------------------------------- satisfaction feedback
\* request inputs: ratings on and beyond both ends of the accepted range
Ratings     == {MinRating - 1, MinRating, MaxRating, MaxRating + 1}
SatComments == {Absent, "thanks"}

NextSat ==
  \/ \E u \in Requesters : TicketCreate(u, DefaultPriority)
  \/ \E u \in Agents, t \in TicketIds, s \in TicketStatus \ {"new"} :
       TicketStatusChange(u, t, s)
  \/ \E u \in Users, t \in TicketIds, r \in Ratings, c \in SatComments :
       TicketSatisfaction(u, t, r, c)

SpecSat == Init /\ [][NextSat]_vars

\* ---------------------------------------------------------- notifications
\* accounts/notifications.py.  No view calls these helpers; they are applied
\* to a ticket of the table and to the users handed to them.

\* the user table in queryset order (Meta.ordering = -date_joined)
UserOrder == <<"ada", "mia", "sam", "alice">>

\* type_mapping of should_send_email / should_send_inapp: the toggle that
\* governs a notification type
PrefKey(type) ==
  CASE type = "sla_breached" -> "sla_warning"
    [] type = "mention"      -> "ticket_comment"
    [] OTHER                 -> type

should_send_inapp(u, type) == PrefKey(type) \in prefs[u].inapp

\* the mutation: no e-mail without the in-app toggle
should_send_email_with_inapp(u, type) ==
  PrefKey(type) \in prefs[u].email /\ PrefKey(type) \in prefs[u].inapp

should_send_email(u, type) == PrefKey(type) \in prefs[u].email

\* the mutation: a send that raises is reported as delivered
send_notification_email_unchecked(u) == TRUE

\* send_notification_email: True unless send_mail raises for the recipient
send_notification_email(u) == u \notin undeliverable

\* the primary key the Notification table gives its next row
RECURSIVE MaxId(_)
MaxId(rows) ==
  IF rows = << >> THEN 0
  ELSE LET m == MaxId(Tail(rows)) IN
         IF Head(rows).id > m THEN Head(rows).id ELSE m

NextId(rows) == MaxId(rows) + 1

\* create_notification on the tables st = [rows, mails]: the row goes in
\* when the in-app toggle is on; send_mail is called when the e-mail toggle
\* is on, and the row records the mail only when the call delivered it
create_notification(st, u, type, t) ==
  LET email_sent == should_send_email(u, type) /\ send_notification_email(u) IN
    [rows  |-> IF should_send_inapp(u, type)
                 THEN Append(st.rows,
                        [id                |-> NextId(st.rows),
                         recipient         |-> u,
                         type              |-> type,
                         related_object_id |-> t,
                         is_read           |-> FALSE,
                         read_at           |-> NoTime,
                         email_sent        |-> email_sent,
                         created_at        |-> now])
                 ELSE st.rows,
     mails |-> IF should_send_email(u, type)
                 THEN Append(st.mails,
                        [to |-> u, type |-> type, related_object_id |-> t,
                         delivered |-> send_notification_email(u)])
                 ELSE st.mails]

\* for recipient in recipients: create_notification(...)
RECURSIVE NotifyEach(_, _, _, _)
NotifyEach(st, recipients, type, t) ==
  IF recipients = << >>
    THEN st
    ELSE NotifyEach(create_notification(st, Head(recipients), type, t),
                    Tail(recipients), type, t)

\* the members of a recipient list
Members(recipients) == {recipients[i] : i \in DOMAIN recipients}

\* recipients.append(u) guarded by `u not in recipients`
AppendNew(recipients, u) ==
  IF u \in Members(recipients) THEN recipients ELSE Append(recipients, u)

\* the mutation: inactive staff are notified of a new ticket too
CreatedRecipientsAnyActivity(creator) ==
  SelectSeq(UserOrder, LAMBDA u : is_staff(u) /\ u # creator)

\* notify_ticket_created: staff_users
CreatedRecipients(creator) ==
  SelectSeq(UserOrder, LAMBDA u : is_staff(u) /\ active[u] /\ u # creator)

\* notify_ticket_assigned: nobody when self-assigning
AssignedRecipients(assignee, assigner) ==
  IF assignee = assigner THEN << >> ELSE <<assignee>>

\* the mutation: the user who made the change is notified like anyone else
StatusRecipientsWithActor(t, changed_by) ==
  <<tickets[t].requester_id>>
  \o (IF tickets[t].assignee_id # None
        THEN <<tickets[t].assignee_id>> ELSE << >>)

\* notify_ticket_status_changed: one call for the requester, one for the
\* assignee, each unless that user made the change
StatusRecipients(t, changed_by) ==
  (IF tickets[t].requester_id # changed_by
     THEN <<tickets[t].requester_id>> ELSE << >>)
  \o (IF tickets[t].assignee_id # None /\ tickets[t].assignee_id # changed_by
        THEN <<tickets[t].assignee_id>> ELSE << >>)

\* notify_new_comment: the assignee alone for an internal comment, else the
\* requester and then the assignee if not yet listed; never the commenter
CommentRecipients(t, internal, commenter) ==
  LET assignee == IF tickets[t].assignee_id # None
                     /\ tickets[t].assignee_id # commenter
                    THEN <<tickets[t].assignee_id>> ELSE << >>
      requester == IF tickets[t].requester_id # commenter
                     THEN <<tickets[t].requester_id>> ELSE << >>
  IN IF internal
       THEN assignee
       ELSE IF assignee = << >> THEN requester
            ELSE AppendNew(requester, assignee[1])

\* for manager in managers: if manager not in recipients: append
RECURSIVE AppendAllNew(_, _)
AppendAllNew(recipients, more) ==
  IF more = << >> THEN recipients
  ELSE AppendAllNew(AppendNew(recipients, Head(more)), Tail(more))

\* notify_sla_warning: the assignee, then the active managers and admins
SlaRecipients(t) ==
  AppendAllNew(IF tickets[t].assignee_id # None
                 THEN <<tickets[t].assignee_id>> ELSE << >>,
               SelectSeq(UserOrder, LAMBDA u : IsAdminOrManager(u) /\ active[u]))

\* notification_type of notify_sla_warning
SlaType(warning_type) ==
  IF warning_type = "breached" THEN "sla_breached" ELSE "sla_warning"

\* one helper call: its recipients are notified in order, and time passes
Dispatch(recipients, type, t) ==
  /\ InService
  /\ LET st == NotifyEach([rows |-> notifications, mails |-> outbox],
                          recipients, type, t) IN
       /\ notifications' = st.rows
       /\ outbox' = st.mails
  /\ now' = now + 1
  /\ UNCHANGED <<tickets, history, response, comments, sla,
                 active, prefs, undeliverable, articles, inflight>>

NotifyTicketCreated(t, creator) ==
  Exists(t) /\ Dispatch(CreatedRecipients(creator), "ticket_created", t)

NotifyTicketAssigned(t, assignee, assigner) ==
  Exists(t) /\ Dispatch(AssignedRecipients(assignee, assigner), "ticket_assigned", t)

NotifyTicketStatusChanged(t, changed_by) ==
  Exists(t) /\ Dispatch(StatusRecipients(t, changed_by), "ticket_status_changed", t)

NotifyNewComment(t, internal, commenter) ==
  Exists(t) /\ Dispatch(CommentRecipients(t, internal, commenter), "ticket_comment", t)

NotifySlaWarning(t, warning_type) ==
  Exists(t) /\ Dispatch(SlaRecipients(t), SlaType(warning_type), t)

\* ------------------------------------------------------------ the inbox
\* NotificationViewSet.get_queryset: the rows addressed to the caller
Mine(u, id) ==
  \E i \in DOMAIN notifications :
    notifications[i].id = id /\ notifications[i].recipient = u

\* POST notifications/<id>/mark_read/
NotificationMarkRead(u, id) ==
  /\ InService
  /\ IF ~Mine(u, id)
       THEN /\ response' = Reply("mark_read", 404)
            /\ UNCHANGED <<notifications, now>>
       ELSE /\ response' = Reply("mark_read", 200)
            /\ IF \E i \in DOMAIN notifications :
                    notifications[i].id = id /\ ~notifications[i].is_read
                 THEN /\ notifications' =
                           [i \in DOMAIN notifications |->
                              IF notifications[i].id = id
                                THEN [notifications[i] EXCEPT !.is_read = TRUE,
                                                              !.read_at = now]
                                ELSE notifications[i]]
                      /\ now' = now + 1
                 ELSE UNCHANGED <<notifications, now>>
  /\ UNCHANGED <<tickets, history, comments, sla,
                 active, prefs, outbox, undeliverable, articles, inflight>>

\* POST notifications/mark_all_read/
NotificationMarkAllRead(u) ==
  /\ InService
  /\ response' = Reply("mark_all_read", 200)
  /\ notifications' =
       [i \in DOMAIN notifications |->
          IF notifications[i].recipient = u /\ ~notifications[i].is_read
            THEN [notifications[i] EXCEPT !.is_read = TRUE, !.read_at = now]
            ELSE notifications[i]]
  /\ now' = now + 1
  /\ UNCHANGED <<tickets, history, comments, sla,
                 active, prefs, outbox, undeliverable, articles, inflight>>

\* DELETE notifications/<id>/: get_object looks the row up in the caller's
\* queryset, so the recipient test after it always passes
NotificationDestroy(u, id) ==
  /\ InService
  /\ IF ~Mine(u, id)
       THEN /\ response' = Reply("destroy", 404)
            /\ UNCHANGED notifications
       ELSE /\ response' = Reply("destroy", 200)
            /\ notifications' = SelectSeq(notifications, LAMBDA r : r.id # id)
  /\ UNCHANGED <<tickets, history, now, comments, sla,
                 active, prefs, outbox, undeliverable, articles, inflight>>

\* DELETE notifications/clear_all/
NotificationClearAll(u) ==
  /\ InService
  /\ response' = Reply("clear_all", 200)
  /\ notifications' =
       SelectSeq(notifications, LAMBDA r : ~(r.recipient = u /\ r.is_read))
  /\ UNCHANGED <<tickets, history, now, comments, sla,
                 active, prefs, outbox, undeliverable, articles, inflight>>

\* the desk the helpers are applied to: tickets as create and assign leave
\* them, accounts some of which are deactivated, preference rows one of
\* which a user has edited, and a mail server that may refuse one address
NotifyAssignees == {None, "alice", "sam", "mia"}
InactiveSets    == {{}, {"sam"}, {"ada"}}
Undeliverables  == {{}, {"sam"}, {"mia"}}
PrefChoices ==
  { DefaultPreference,
    [email |-> {},                    inapp |-> PrefKeys],
    [email |-> PrefKeys \ {"system"}, inapp |-> {}] }
PrefTables ==
  {[u \in Users |-> DefaultPreference]} \cup
  {[[u \in Users |-> DefaultPreference] EXCEPT ![w] = c] :
     w \in Users, c \in PrefChoices}

TicketRow(requester, assignee) ==
  [status                  |-> IF assignee = None THEN "new" ELSE "assigned",
   priority                |-> DefaultPriority,
   requester_id            |-> requester,
   assignee_id             |-> assignee,
   team_id                 |-> None,
   sla_response_deadline   |-> NoTime,
   sla_resolution_deadline |-> NoTime,
   sla_breached            |-> FALSE,
   satisfaction_rating     |-> NoRating,
   satisfaction_comment    |-> None,
   resolved_at             |-> NoTime,
   closed_at               |-> NoTime,
   created_at              |-> 1,
   updated_at              |-> 1]

InitNotify ==
  /\ tickets \in [TicketIds ->
                    {TicketRow(r, a) : r \in Requesters, a \in NotifyAssignees}]
  /\ history = << >>
  /\ now = MaxClock
  /\ response = Reply("none", 0)
  /\ comments = << >>
  /\ sla = DefaultSLAConfigs
  /\ active \in {[u \in Users |-> u \notin off] : off \in InactiveSets}
  /\ prefs \in PrefTables
  /\ notifications = << >>
  /\ outbox = << >>
  /\ undeliverable \in Undeliverables
  /\ articles = << >>
  /\ inflight = NoRequests

NextNotify ==
  \/ \E t \in TicketIds, creator \in Users : NotifyTicketCreated(t, creator)
  \/ \E t \in TicketIds, assignee \in AssigneeIds, assigner \in Users :
       NotifyTicketAssigned(t, assignee, assigner)
  \/ \E t \in TicketIds, changed_by \in Users :
       NotifyTicketStatusChanged(t, changed_by)
  \/ \E t \in TicketIds, internal \in BOOLEAN, commenter \in Users :
       NotifyNewComment(t, internal, commenter)
  \/ \E t \in TicketIds, warning_type \in {"warning", "breached"} :
       NotifySlaWarning(t, warning_type)

SpecNotify == InitNotify /\ [][NextNotify]_vars

\* the inbox of a desk whose tickets alice filed and sam works on
InboxUsers == {"alice", "sam", "mia"}

\* the ids a caller may put in the URL: every id the table can hand out
\* (a dispatch adds two rows at most) and one it cannot
InboxIds == 1..(2 * MaxClock + 1)

InitInbox ==
  /\ tickets = [t \in TicketIds |-> TicketRow("alice", "sam")]
  /\ history = << >>
  /\ now = 1
  /\ response = Reply("none", 0)
  /\ comments = << >>
  /\ sla = DefaultSLAConfigs
  /\ active = [u \in Users |-> TRUE]
  /\ prefs = [u \in Users |-> DefaultPreference]
  /\ notifications = << >>
  /\ outbox = << >>
  /\ undeliverable = {}
  /\ articles = << >>
  /\ inflight = NoRequests

NextInbox ==
  \/ \E t \in TicketIds, changed_by \in Agents :
       NotifyTicketStatusChanged(t, changed_by)
  \/ \E u \in InboxUsers, id \in InboxIds : NotificationMarkRead(u, id)
  \/ \E u \in InboxUsers : NotificationMarkAllRead(u)
  \/ \E u \in InboxUsers, id \in InboxIds : NotificationDestroy(u, id)
  \/ \E u \in InboxUsers : NotificationClearAll(u)

SpecInbox == InitInbox /\ [][NextInbox]_vars

\* ------------------------------------------------------- knowledge base
\* kb/views.py over kb/models.py.  A row keeps the title as its text (the
\* content and summary are searched the same way), and leaves out category,
\* tags, author and updated_at.  Every save() reads the clock.

\* the accounts carrying Django's is_staff / is_superuser flag
DjangoStaff == {"ada"}

\* is_staff_user: the role first, the Django flags as fallback
is_staff_user(u) ==
  \/ Role[u] \in {SUPPORT_STAFF, MANAGER, ADMIN}
  \/ u \in DjangoStaff

\* KnowledgeArticle.objects.get(pk=pk, deleted_at__isnull=True) finds a row
Live(pk) == pk \in DOMAIN articles /\ articles[pk].deleted_at = NoTime

\* the mutation: end users see public articles of every status
get_visible_articles_any_status(u) ==
  {pk \in DOMAIN articles :
     /\ articles[pk].deleted_at = NoTime
     /\ \/ is_staff_user(u)
        \/ articles[pk].access_level = "public"}

\* get_visible_articles_queryset
get_visible_articles_queryset(u) ==
  {pk \in DOMAIN articles :
     /\ articles[pk].deleted_at = NoTime
     /\ \/ is_staff_user(u)
        \/ /\ articles[pk].status = "published"
           /\ articles[pk].access_level = "public"}

\* the visibility check of retrieve and feedback on a row that was found
MayRead(u, pk) ==
  \/ is_staff_user(u)
  \/ /\ articles[pk].status = "published"
     /\ articles[pk].access_level = "public"

\* text is a sequence of characters; icontains compares ignoring case
Lower(c) ==
  CASE c = "V" -> "v"
    [] c = "P" -> "p"
    [] c = "N" -> "n"
    [] OTHER   -> c

LowerAll(text) == [i \in DOMAIN text |-> Lower(text[i])]

icontains(text, term) ==
  \E i \in 1..(Len(text) - Len(term) + 1) :
    SubSeq(LowerAll(text), i, i + Len(term) - 1) = LowerAll(term)

\* Paginator.num_pages and the page Paginator.get_page settles on
NumPages(count, page_size) ==
  IF count = 0 THEN 1 ELSE (count + page_size - 1) \div page_size

GetPage(page, count, page_size) ==
  IF page < 1 \/ page > NumPages(count, page_size)
    THEN NumPages(count, page_size)
    ELSE page

\* GET articles/?page=&pageSize=: the rows of the caller's queryset on that
\* page, newest first
ArticleList(u, page, page_size) ==
  LET qs      == get_visible_articles_queryset(u)
      rank(a) == Cardinality({b \in qs : articles[b].created_at > articles[a].created_at}) + 1
      p       == GetPage(page, Cardinality(qs), page_size)
  IN {a \in qs : (p - 1) * page_size < rank(a) /\ rank(a) <= p * page_size}

\* GET faq/
faq_list(u) == {a \in get_visible_articles_queryset(u) : articles[a].is_faq}

\* GET suggestions/?query=&limit=: the first `limit` matches, most viewed
\* first and newest first among equally viewed
suggestions(u, query, limit) ==
  IF query = << >> THEN {}
  ELSE LET qs == {a \in get_visible_articles_queryset(u) :
                    icontains(articles[a].title, query)}
           before(b, a) ==
             \/ articles[b].view_count > articles[a].view_count
             \/ /\ articles[b].view_count = articles[a].view_count
                /\ articles[b].created_at > articles[a].created_at
       IN {a \in qs : Cardinality({b \in qs : before(b, a)}) < limit}

\* what no knowledge-base endpoint reads or writes
deskVars == <<tickets, history, comments, sla,
              active, prefs, notifications, outbox, undeliverable, inflight>>

\* KnowledgeArticleSerializer: title is required, accessLevel is a choice;
\* FeedbackSerializer: helpful is required
ValidArticle(body) ==
  /\ body.title # Absent
  /\ body.access_level \in {Absent, "public", "internal"}

ValidArticlePatch(body) == body.access_level \in {Absent, "public", "internal"}

ValidFeedback(helpful) == helpful # Absent

\* POST articles/: staff only; the row starts as a draft with zero counters
ArticleCreate(u, body) ==
  /\ InService
  /\ Len(articles) < MaxArticles
  /\ IF ~is_staff_user(u)
       THEN /\ response' = Reply("kb_create", 403)
            /\ UNCHANGED <<articles, now>>
       ELSE IF ~ValidArticle(body)
       THEN /\ response' = Reply("kb_create", 400)
            /\ UNCHANGED <<articles, now>>
       ELSE /\ response' = Reply("kb_create", 201)
            /\ articles' = Append(articles,
                 [title             |-> body.title,
                  status            |-> "draft",
                  access_level      |-> Updated("public", body.access_level),
                  is_faq            |-> body.is_faq = "true",
                  view_count        |-> 0,
                  helpful_count     |-> 0,
                  not_helpful_count |-> 0,
                  created_at        |-> now,
                  published_at      |-> NoTime,
                  deleted_at        |-> NoTime])
            /\ now' = now + 1
  /\ UNCHANGED deskVars

\* the skeleton of the staff-only endpoints on one article: 403, then 404,
\* then the row is replaced and saved
StaffWrite(op, u, pk, row) ==
  /\ InService
  /\ IF ~is_staff_user(u)
       THEN /\ response' = Reply(op, 403)
            /\ UNCHANGED <<articles, now>>
       ELSE IF ~Live(pk)
       THEN /\ response' = Reply(op, 404)
            /\ UNCHANGED <<articles, now>>
       ELSE /\ response' = Reply(op, 200)
            /\ articles' = [articles EXCEPT ![pk] = row]
            /\ now' = now + 1
  /\ UNCHANGED deskVars

\* PUT articles/<pk>/ with a partial body; status is read-only
ArticleUpdate(u, pk, body) ==
  /\ InService
  /\ IF ~is_staff_user(u)
       THEN /\ response' = Reply("kb_update", 403)
            /\ UNCHANGED <<articles, now>>
       ELSE IF ~Live(pk)
       THEN /\ response' = Reply("kb_update", 404)
            /\ UNCHANGED <<articles, now>>
       ELSE IF ~ValidArticlePatch(body)
       THEN /\ response' = Reply("kb_update", 400)
            /\ UNCHANGED <<articles, now>>
       ELSE /\ response' = Reply("kb_update", 200)
            /\ articles' = [articles EXCEPT ![pk] =
                 [@ EXCEPT !.title        = Updated(@, body.title),
                           !.access_level = Updated(@, body.access_level),
                           !.is_faq       = IF body.is_faq = Absent THEN @
                                            ELSE body.is_faq = "true"]]
            /\ now' = now + 1
  /\ UNCHANGED deskVars

\* DELETE articles/<pk>/: soft_delete stamps deleted_at, the row stays
ArticleDestroy(u, pk) ==
  StaffWrite("kb_destroy", u, pk,
             IF Live(pk) THEN [articles[pk] EXCEPT !.deleted_at = now]
             ELSE << >>)

\* POST articles/<pk>/publish/: published_at is stamped the first time
ArticlePublish(u, pk) ==
  StaffWrite("kb_publish", u, pk,
             IF Live(pk)
               THEN [articles[pk] EXCEPT
                       !.status = "published",
                       !.published_at = IF @ = NoTime THEN now ELSE @]
               ELSE << >>)

\* POST articles/<pk>/archive/
ArticleArchive(u, pk) ==
  StaffWrite("kb_archive", u, pk,
             IF Live(pk) THEN [articles[pk] EXCEPT !.status = "archived"]
             ELSE << >>)

\* the mutation: every accepted feedback counts as helpful
add_feedback_always_helpful(row, helpful) ==
  [row EXCEPT !.helpful_count = @ + 1]

\* KnowledgeArticle.add_feedback
add_feedback(row, helpful) ==
  IF helpful
    THEN [row EXCEPT !.helpful_count = @ + 1]
    ELSE [row EXCEPT !.not_helpful_count = @ + 1]

\* the skeleton of retrieve and feedback, open to every user: a row that is
\* missing, deleted or not readable by the caller is answered 404
ReaderWrite(op, u, pk, valid, row) ==
  /\ InService
  /\ IF ~Live(pk)
       THEN /\ response' = Reply(op, 404)
            /\ UNCHANGED <<articles, now>>
       ELSE IF ~MayRead(u, pk)
       THEN /\ response' = Reply(op, 404)
            /\ UNCHANGED <<articles, now>>
       ELSE IF ~valid
       THEN /\ response' = Reply(op, 400)
            /\ UNCHANGED <<articles, now>>
       ELSE /\ response' = Reply(op, 200)
            /\ articles' = [articles EXCEPT ![pk] = row]
            /\ now' = now + 1
  /\ UNCHANGED deskVars

\* POST articles/<pk>/feedback/ with body {helpful}
ArticleFeedback(u, pk, helpful) ==
  ReaderWrite("kb_feedback", u, pk, ValidFeedback(helpful),
              IF Live(pk) THEN add_feedback(articles[pk], helpful = "true")
              ELSE << >>)

\* GET articles/<pk>/: increment_view_count
ArticleRetrieve(u, pk) ==
  ReaderWrite("kb_retrieve", u, pk, TRUE,
              IF Live(pk) THEN [articles[pk] EXCEPT !.view_count = @ + 1]
              ELSE << >>)

\* request inputs of the knowledge base: an end user and a support agent
KbUsers    == {"alice", "sam"}
ArticleIds == 1..MaxArticles
Queries    == {<< >>, <<"v", "p">>, <<"x">>}
ArticleBodies ==
  { [title |-> <<"V", "P", "N">>, access_level |-> Absent,     is_faq |-> "true"],
    [title |-> <<"N", "a", "p">>, access_level |-> "internal", is_faq |-> Absent],
    [title |-> Absent,            access_level |-> Absent,     is_faq |-> Absent] }
ArticlePatches ==
  { [title |-> Absent, access_level |-> "public",   is_faq |-> Absent],
    [title |-> Absent, access_level |-> "internal", is_faq |-> Absent],
    [title |-> Absent, access_level |-> "bogus",    is_faq |-> Absent] }
Helpfuls == {Absent, "true", "false"}

\* the defaults of pageSize and limit
DefaultPageSize == 10
DefaultLimit    == 5

\* query parameters: every page there can be, one row or the default per page
Pages     == 1..MaxArticles
PageSizes == {1, DefaultPageSize}
Limits    == {1, DefaultLimit}

NextKb ==
  \/ \E u \in KbUsers, body \in ArticleBodies : ArticleCreate(u, body)
  \/ \E u \in KbUsers, pk \in ArticleIds, body \in ArticlePatches :
       ArticleUpdate(u, pk, body)
  \/ \E u \in KbUsers, pk \in ArticleIds : ArticleDestroy(u, pk)
  \/ \E u \in KbUsers, pk \in ArticleIds : ArticlePublish(u, pk)
  \/ \E u \in KbUsers, pk \in ArticleIds : ArticleArchive(u, pk)
  \/ \E u \in KbUsers, pk \in ArticleIds, helpful \in Helpfuls :
       ArticleFeedback(u, pk, helpful)
  \/ \E u \in KbUsers, pk \in ArticleIds : ArticleRetrieve(u, pk)

SpecKb == Init /\ [][NextKb]_vars

\* ------------------------------------------- status change, statement by statement
\* TicketStatusChangeView.post as the statements it runs, for two workers
\* that serve requests on the same tables.  Every ORM call commits on its
\* own; `ticket` is the worker's in-memory instance.

\* permission check, get_object_or_404, serializer, old_status = ticket.status
StatusBegin(w, u, t, s) ==
  /\ InService
  /\ inflight[w].pc = "idle"
  /\ IF ~IsStaffMember(u) THEN
       /\ response' = Reply("status", 403)
       /\ UNCHANGED inflight
     ELSE IF ~Exists(t) THEN
       /\ response' = Reply("status", 404)
       /\ UNCHANGED inflight
     ELSE IF s \notin TicketStatus THEN
       /\ response' = Reply("status", 400)
       /\ UNCHANGED inflight
     ELSE
       /\ inflight' = [inflight EXCEPT ![w] =
            [pc         |-> "loaded",
             user       |-> u,
             ticket_id  |-> t,
             ticket     |-> tickets[t],
             old_status |-> tickets[t].status,
             new_status |-> s]]
       /\ UNCHANGED response
  /\ UNCHANGED <<tickets, history, now, comments, sla,
                 active, prefs, notifications, outbox, undeliverable, articles>>

\* if old_status != new_status: the instance takes the new status, the
\* history row is inserted, resolved_at / closed_at are stamped
StatusLog(w) ==
  LET r == inflight[w] IN
  /\ InService
  /\ r.pc = "loaded"
  /\ IF StatusChanged(r.old_status, r.new_status)
       THEN /\ history' = Append(history,
                   HistoryRow(r.ticket_id, r.old_status, r.new_status, r.user, now))
            /\ inflight' = [inflight EXCEPT ![w] =
                 [@ EXCEPT !.pc = "logged",
                           !.ticket =
                             [@ EXCEPT !.status      = r.new_status,
                                       !.resolved_at = IF r.new_status = "resolved"
                                                       THEN now ELSE @,
                                       !.closed_at   = IF r.new_status = "closed"
                                                       THEN now ELSE @]]]
            /\ now' = now + 1
       ELSE /\ inflight' = [inflight EXCEPT ![w] = [@ EXCEPT !.pc = "logged"]]
            /\ UNCHANGED <<history, now>>
  /\ UNCHANGED <<tickets, response, comments, sla,
                 active, prefs, notifications, outbox, undeliverable, articles>>

\* ticket.updated_at = timezone.now(); ticket.save(): every column of the row
\* is written from the instance; the response is 200
StatusSave(w) ==
  LET r == inflight[w] IN
  /\ InService
  /\ r.pc = "logged"
  /\ tickets' = [tickets EXCEPT ![r.ticket_id] =
                   [r.ticket EXCEPT !.updated_at = now]]
  /\ now' = now + 1
  /\ response' = Reply("status", 200)
  /\ inflight' = [inflight EXCEPT ![w] = [@ EXCEPT !.pc = "done"]]
  /\ UNCHANGED <<history, comments, sla,
                 active, prefs, notifications, outbox, undeliverable, articles>>

\* the request dies after the history insert and before ticket.save() (the
\* database connection drops, the worker is killed): the caller gets a 500
\* and nothing undoes the insert, for the view opens no transaction
StatusAbort(w) ==
  /\ inflight[w].pc = "logged"
  /\ response' = Reply("status", 500)
  /\ inflight' = [inflight EXCEPT ![w] = [@ EXCEPT !.pc = "failed"]]
  /\ UNCHANGED <<tickets, history, now, comments, sla,
                 active, prefs, notifications, outbox, undeliverable, articles>>

RaceUsers    == {"alice", "sam", "mia"}
RaceStatuses == {"in_progress", "resolved", BadStatus}

\* a desk where alice's tickets wait, new and unassigned, as TicketCreate
\* leaves them
InitRace ==
  /\ tickets = [t \in TicketIds |-> TicketRow("alice", None)]
  /\ history = << >>
  /\ now = 1
  /\ response = Reply("none", 0)
  /\ comments = << >>
  /\ sla = DefaultSLAConfigs
  /\ active = [u \in Users |-> TRUE]
  /\ prefs = [u \in Users |-> DefaultPreference]
  /\ notifications = << >>
  /\ outbox = << >>
  /\ undeliverable = {}
  /\ articles = << >>
  /\ inflight = NoRequests

NextRace ==
  \/ \E w \in Workers, u \in RaceUsers, t \in 1..(MaxTickets + 1), s \in RaceStatuses :
       StatusBegin(w, u, t, s)
  \/ \E w \in Workers : StatusLog(w)
  \/ \E w \in Workers : StatusSave(w)
  \/ \E w \in Workers : StatusAbort(w)

SpecRace == InitRace /\ [][NextRace]_vars

\* ------------------------------------------------------------ properties
AnyStatus == TicketStatus \cup {BadStatus}

EndUsers == {u \in Users : Role[u] = END_USER}

Staff == {u \in Users : Role[u] \in {SUPPORT_STAFF, MANAGER, ADMIN}}

\* every column of ticket t except the named ones is the same in both states
SameExcept(t, cols) ==
  /\ DOMAIN tickets' = DOMAIN tickets
  /\ \A k \in DOMAIN tickets : k # t => tickets'[k] = tickets[k]
  /\ \A c \in (DOMAIN tickets[t]) \ cols : tickets'[t][c] = tickets[t][c]

\* C1: a status request by an end_user, the ticket's requester included, is
\* answered 403 and changes neither the ticket table nor the history table.
C1_EndUserTransitionForbidden ==
  [][response'.op = "status" =>
     \A u \in EndUsers, t \in TicketIds, s \in AnyStatus :
       TicketStatusChange(u, t, s)
         => /\ response'.code = 403
            /\ tickets' = tickets
            /\ history' = history]_vars

\* the requester of a stored ticket is an end_user and the last status
\* request was refused
C1_Witness ==
  /\ response = Reply("status", 403)
  /\ \E t \in DOMAIN tickets : Role[tickets[t].requester_id] = END_USER

\* C2: an accepted assign of a ticket in status new sets status assigned and
\* appends exactly one history row new -> assigned.
C2_AssignNewAppendsHistory ==
  [][\A u \in Users, t \in TicketIds, a \in AssigneeIds, tm \in TeamIds :
       (/\ IsAdminOrManager(u)
        /\ Exists(t)
        /\ tickets[t].status = "new"
        /\ TicketAssign(u, t, a, tm))
         => /\ tickets'[t].status = "assigned"
            /\ Len(history') = Len(history) + 1
            /\ SubSeq(history', 1, Len(history)) = history
            /\ history'[Len(history')].ticket = t
            /\ history'[Len(history')].from_status = "new"
            /\ history'[Len(history')].to_status = "assigned"]_vars

\* C3: an accepted assign of a ticket whose status is not new keeps the
\* status, writes no history row and changes only assignee_id, team_id and
\* updated_at.
C3_AssignKeepsOtherStatus ==
  [][response'.op = "assign" =>
     \A u \in Users, t \in TicketIds, a \in AssigneeIds, tm \in TeamIds :
       (/\ IsAdminOrManager(u)
        /\ Exists(t)
        /\ tickets[t].status # "new"
        /\ TicketAssign(u, t, a, tm))
         => /\ tickets'[t].status = tickets[t].status
            /\ history' = history
            /\ SameExcept(t, {"assignee_id", "team_id", "updated_at"})
            /\ tickets'[t].assignee_id = a
            /\ tickets'[t].team_id = tm]_vars

\* a ticket that is in progress and was assigned by the last request
C3_Witness ==
  /\ response = Reply("assign", 200)
  /\ \E t \in DOMAIN tickets :
       /\ tickets[t].status = "in_progress"
       /\ tickets[t].assignee_id # None
       /\ tickets[t].updated_at = now - 1

\* C4: a status request naming the current status writes no history row and
\* leaves updated_at and every other column as they were.
C4_SameStatusIsNoOp ==
  [][\A u \in Users, t \in TicketIds, s \in TicketStatus :
       (/\ IsStaffMember(u)
        /\ Exists(t)
        /\ s = tickets[t].status
        /\ TicketStatusChange(u, t, s))
         => /\ history' = history
            /\ tickets' = tickets]_vars

\* the history rows of ticket t that carry its latest changed_at
LatestRows(t) ==
  {i \in DOMAIN history :
     /\ history[i].ticket = t
     /\ \A j \in DOMAIN history :
          history[j].ticket = t => history[j].changed_at <= history[i].changed_at}

\* C5: every ticket has exactly one history row with the maximal timestamp,
\* and that row's to_status is the ticket's status.
C5_LatestHistoryIsStatus ==
  \A t \in DOMAIN tickets :
    /\ Cardinality(LatestRows(t)) = 1
    /\ \A i \in LatestRows(t) : history[i].to_status = tickets[t].status

\* C6: no history row has from_status equal to to_status.
C6_NoSelfTransitionRow ==
  \A i \in DOMAIN history : history[i].from_status # history[i].to_status

\* a status request naming the current status was accepted on a ticket that
\* already has a history row
C6_Witness ==
  /\ response = Reply("status", 200)
  /\ \E t \in DOMAIN tickets :
       /\ tickets[t].updated_at = now - 1
       /\ HistoryOf(t) # << >>
       /\ HistoryOf(t)[Len(HistoryOf(t))].changed_at < tickets[t].updated_at

\* C7: an accepted status change appends exactly one history row holding the
\* previous status, the requested status and the caller; no step changes or
\* removes a row already in the table.
C7_OneRowPerTransition ==
  [][/\ Len(history') >= Len(history)
     /\ SubSeq(history', 1, Len(history)) = history
     /\ response'.op = "status" =>
        \A t \in {k \in DOMAIN tickets : tickets'[k] # tickets[k]} :
          \A s \in TicketStatus \ {tickets[t].status}, u \in Staff :
            TicketStatusChange(u, t, s)
              => /\ Len(history') = Len(history) + 1
                 /\ history'[Len(history')].ticket = t
                 /\ history'[Len(history')].from_status = tickets[t].status
                 /\ history'[Len(history')].to_status = s
                 /\ history'[Len(history')].changed_by_id = u]_vars

\* the last request was an accepted status change and it was the second one
C7_Witness ==
  /\ response = Reply("status", 200)
  /\ Len(history) >= 2
  /\ history[Len(history)].changed_at = now - 1

\* C8: resolved_at is written by the first transition to resolved and keeps
\* that value through every later step, a second transition to resolved
\* included.
C8_ResolvedAtFirstTimeOnly ==
  [][\A t \in DOMAIN tickets :
       /\ (tickets[t].resolved_at = NoTime
             /\ tickets[t].status # "resolved" /\ tickets'[t].status = "resolved")
            => tickets'[t].resolved_at = now
       /\ tickets[t].resolved_at # NoTime
            => tickets'[t].resolved_at = tickets[t].resolved_at]_vars

\* ticket t has a history row that enters resolved or closed
ReachedResolved(t) ==
  \E i \in DOMAIN history :
    history[i].ticket = t /\ history[i].to_status \in {"resolved", "closed"}

\* C9: resolved_at is set exactly when the ticket has been resolved or closed
\* at some point.
C9_ResolvedAtIffReached ==
  \A t \in DOMAIN tickets :
    (tickets[t].resolved_at # NoTime) <=> ReachedResolved(t)

\* C10: closed_at is set exactly when the ticket's status is closed.
C10_ClosedAtIffClosed ==
  \A t \in DOMAIN tickets :
    (tickets[t].closed_at # NoTime) <=> (tickets[t].status = "closed")
\* C11: a satisfaction request for an existing ticket by its requester, with
\* a rating in range, is answered 200 at whatever status the ticket has and
\* stores the rating; a request answered anything but 403 comes from the
\* requester, so every other user, staff included, is answered 403, and a
\* request answered 403 leaves each rating and satisfaction comment as it was.
C11_SatisfactionOwnerOnly ==
  [][response'.op = "satisfaction" =>
       /\ response'.code = 403 =>
             \A t \in DOMAIN tickets :
               /\ tickets'[t].satisfaction_rating = tickets[t].satisfaction_rating
               /\ tickets'[t].satisfaction_comment = tickets[t].satisfaction_comment
       /\ response'.code # 403 =>
             \A u \in Users, t \in DOMAIN tickets, r \in Ratings, c \in SatComments :
               TicketSatisfaction(u, t, r, c) =>
                 /\ is_owner(u, t)
                 /\ ValidRating(r) =>
                       /\ response'.code = 200
                       /\ tickets'[t].satisfaction_rating = r
                       /\ tickets'[t].status = tickets[t].status]_vars

\* a ticket still "new" that its requester has just rated
C11_Witness ==
  /\ response = Reply("satisfaction", 200)
  /\ \E t \in DOMAIN tickets :
       /\ tickets[t].status = "new"
       /\ tickets[t].satisfaction_rating # NoRating
       /\ tickets[t].updated_at = now - 1

\* C12: the ticket has one rating column and an accepted satisfaction request
\* leaves in it the rating of that request, whatever was stored before; a
\* request repeating the stored rating leaves the rating as it was.
C12_LastRatingWins ==
  [][response' = Reply("satisfaction", 200) =>
       \A t \in {k \in DOMAIN tickets : tickets'[k] # tickets[k]} :
         \A r \in Ratings, c \in SatComments :
           TicketSatisfaction(tickets[t].requester_id, t, r, c) =>
             /\ tickets'[t].satisfaction_rating = r
             /\ tickets'[t].satisfaction_rating \in MinRating..MaxRating
             /\ r = tickets[t].satisfaction_rating =>
                   tickets'[t].satisfaction_rating = tickets[t].satisfaction_rating]_vars

\* a ticket rated by two accepted requests in a row, the only writes since
\* it was created
C12_Witness ==
  /\ response = Reply("satisfaction", 200)
  /\ \E t \in DOMAIN tickets :
       /\ tickets[t].status = "new"
       /\ tickets[t].satisfaction_rating # NoRating
       /\ tickets[t].updated_at = now - 1
       /\ tickets[t].updated_at >= tickets[t].created_at + 2
       /\ Len(tickets) = 1
NonManagers == {u \in Users : ~IsAdminOrManager(u)}

\* C13: a request by a support_staff or end_user user, through whichever
\* ticket endpoint, leaves the ticket's assignee_id and team_id as they were.
C13_OnlyManagersReassign ==
  [][\A u \in NonManagers, t \in DOMAIN tickets :
       (\/ \E body \in UpdateBodies : TicketUpdate(u, t, body)
        \/ \E a \in AssigneeIds, tm \in TeamIds : TicketAssign(u, t, a, tm)
        \/ \E st \in AnyStatus : TicketStatusChange(u, t, st)
        \/ \E c \in Contents, i \in InternalFlags : TicketCommentCreate(u, t, c, i)
        \/ \E r \in Ratings, c \in SatComments : TicketSatisfaction(u, t, r, c))
       => /\ tickets'[t].assignee_id = tickets[t].assignee_id
          /\ tickets'[t].team_id = tickets[t].team_id]_vars

\* C14: every comment row with is_internal set was written by a staff user.
C14_InternalOnlyByStaff ==
  \A i \in DOMAIN comments :
    comments[i].is_internal => is_staff(comments[i].author_id)

\* C16: creating a ticket whose priority has an active SLAConfig row stores
\* sla_response_deadline = created_at + response_time and
\* sla_resolution_deadline = created_at + resolution_time of that row.
C16_DeadlinesFromPolicy ==
  [][response' = Reply("create", 200) =>
       \A u \in Requesters, p \in TicketPriority :
         (sla[p].is_active /\ TicketCreate(u, p)) =>
           LET row == tickets'[Len(tickets')] IN
             /\ row.sla_response_deadline = row.created_at + sla[p].response_time
             /\ row.sla_resolution_deadline = row.created_at + sla[p].resolution_time]_vars

\* the resolution deadline of ticket t: the stored one, or, the column being
\* empty, created_at + resolution_time of the active row of its priority
\* (the SLAConfig table and the priority being what they were on create)
ResolutionDue(t) ==
  IF tickets[t].sla_resolution_deadline # NoTime
    THEN tickets[t].sla_resolution_deadline
    ELSE IF sla[tickets[t].priority].is_active
      THEN tickets[t].created_at + sla[tickets[t].priority].resolution_time
      ELSE NoTime

SlaBreachedRows(rows, t, u) ==
  {i \in DOMAIN rows : /\ rows[i].type = "sla_breached"
                       /\ rows[i].related_object_id = t
                       /\ rows[i].recipient = u}

\* C17: a status request served after the ticket's resolution deadline, the
\* ticket being neither resolved nor closed afterwards, leaves sla_breached
\* set, and a ticket whose flag it sets gets one sla_breached notification
\* per recipient and at least one in all.
C17_BreachFlaggedOnce ==
  [][response' = Reply("status", 200) =>
       \A t \in {k \in DOMAIN tickets : tickets'[k] # tickets[k]} :
         (/\ ResolutionDue(t) # NoTime
          /\ tickets'[t].updated_at > ResolutionDue(t)
          /\ tickets'[t].status \notin {"resolved", "closed"}) =>
            /\ tickets'[t].sla_breached
            /\ ~tickets[t].sla_breached =>
                  /\ \E u \in Users :
                        SlaBreachedRows(notifications', t, u) # {}
                  /\ \A u \in Users :
                        Cardinality(SlaBreachedRows(notifications', t, u)
                                      \ SlaBreachedRows(notifications, t, u)) <= 1]_vars
\* the notification rows and the e-mails the last step added
NewRows  == (Len(notifications) + 1)..Len(notifications')
NewMails == (Len(outbox) + 1)..Len(outbox')

\* the users the last step notified, in-app or by e-mail
Notified ==
  {notifications'[i].recipient : i \in NewRows} \cup {outbox'[i].to : i \in NewMails}

\* C18: dispatching ticket_created for a ticket and its creator notifies only
\* active users of role support_staff, manager or admin other than the
\* creator (so no inactive user and no end_user), and gives every such user
\* whose in-app toggle is on a ticket_created row for that ticket.
C18_CreatedRecipients ==
  [][\A t \in DOMAIN tickets, creator \in Users :
       NotifyTicketCreated(t, creator) =>
         LET expected == {u \in Users : /\ Role[u] \in {SUPPORT_STAFF, MANAGER, ADMIN}
                                         /\ active[u]
                                         /\ u # creator}
         IN /\ Notified \subseteq expected
            /\ \A u \in Notified : active[u] /\ Role[u] # END_USER
            /\ \A u \in expected :
                 PrefKey("ticket_created") \in prefs[u].inapp =>
                   \E i \in NewRows :
                     /\ notifications'[i].recipient = u
                     /\ notifications'[i].type = "ticket_created"
                     /\ notifications'[i].related_object_id = t]_vars

\* ticket_created rows exist while a staff account is deactivated and an
\* active staff user with untouched preferences, the creator, has none
C18_Witness ==
  /\ notifications # << >>
  /\ \A i \in DOMAIN notifications : notifications[i].type = "ticket_created"
  /\ \E u \in Staff : ~active[u]
  /\ \E v \in Staff :
       /\ active[v]
       /\ prefs[v] = DefaultPreference
       /\ \A i \in DOMAIN notifications : notifications[i].recipient # v

\* C19: dispatching ticket_comment for an internal comment, whoever the
\* ticket's requester, its assignee and the commenter are, notifies the
\* requester neither in-app nor by e-mail.
C19_InternalNotToRequester ==
  [][\A t \in DOMAIN tickets, commenter \in Users :
       NotifyNewComment(t, TRUE, commenter) =>
         tickets[t].requester_id \notin Notified]_vars

\* C20: one dispatched event gives each user at most one notification row
\* and at most one e-mail, under however many rules the user qualifies.
C20_AtMostOnePerUser ==
  [][\A u \in Users :
       /\ Cardinality({i \in NewRows : notifications'[i].recipient = u}) <= 1
       /\ Cardinality({i \in NewMails : outbox'[i].to = u}) <= 1]_vars
\* C21: dispatching ticket_created, ticket_assigned, ticket_status_changed or
\* ticket_comment on behalf of the user who created, assigned, changed or
\* commented notifies that user neither in-app nor by e-mail.
C21_NoSelfNotification ==
  [][\A t \in DOMAIN tickets, actor \in Users :
       (\/ NotifyTicketCreated(t, actor)
        \/ \E assignee \in AssigneeIds : NotifyTicketAssigned(t, assignee, actor)
        \/ NotifyTicketStatusChanged(t, actor)
        \/ \E internal \in BOOLEAN : NotifyNewComment(t, internal, actor))
       => actor \notin Notified]_vars

\* a status change made by the requester of an assigned ticket: the assignee
\* has the row, the requester, whose toggles are all on, has none
C21_Witness ==
  /\ notifications # << >>
  /\ \A i \in DOMAIN notifications :
       notifications[i].type = "ticket_status_changed"
  /\ \E t \in DOMAIN tickets :
       /\ tickets[t].assignee_id \notin {None, tickets[t].requester_id}
       /\ prefs[tickets[t].requester_id] = DefaultPreference
       /\ \A i \in DOMAIN notifications :
            /\ notifications[i].related_object_id = t
            /\ notifications[i].recipient = tickets[t].assignee_id
\* the rows of the Notification table that the last step deleted
Deleted ==
  {i \in DOMAIN notifications :
     \A j \in DOMAIN notifications' : notifications'[j].id # notifications[i].id}

\* C22: a row leaves the Notification table only when it is already read,
\* and a delete or clear request of a user removes rows addressed to that
\* user only.
C22_OnlyReadOwnDeleted ==
  [][/\ \A i \in Deleted : notifications[i].is_read
     /\ \A u \in InboxUsers :
          (\/ NotificationClearAll(u)
           \/ \E id \in InboxIds : NotificationDestroy(u, id))
          => \A i \in Deleted : notifications[i].recipient = u]_vars
NonStaffKb == {u \in Users : ~is_staff_user(u)}

PublishedPublic(a) ==
  /\ articles[a].status = "published"
  /\ articles[a].access_level = "public"
  /\ articles[a].deleted_at = NoTime

\* C23: in every state, for a user who is not staff and a stored article:
\* some page of the list shows it, and the detail endpoint answers it, if and
\* only if it is published, public and not soft-deleted; the FAQ shows it if
\* and only if it is that and an FAQ; some suggestions request shows it if
\* and only if it is that and its text contains a query.
C23_VisibleIffPublishedPublic ==
  \A u \in NonStaffKb, a \in DOMAIN articles :
    /\ (\E page \in Pages, page_size \in PageSizes :
          a \in ArticleList(u, page, page_size)) <=> PublishedPublic(a)
    /\ (Live(a) /\ MayRead(u, a)) <=> PublishedPublic(a)
    /\ a \in faq_list(u) <=> (PublishedPublic(a) /\ articles[a].is_faq)
    /\ (\E query \in Queries, limit \in Limits :
          a \in suggestions(u, query, limit))
       <=> (/\ PublishedPublic(a)
            /\ \E query \in Queries \ {<< >>} : icontains(articles[a].title, query))

\* a public article that staff published and then soft-deleted: the row is
\* stored and no page of the end user's list shows it
C23_Witness ==
  /\ response = Reply("kb_destroy", 200)
  /\ \E a \in DOMAIN articles :
       /\ articles[a].status = "published"
       /\ articles[a].access_level = "public"
       /\ articles[a].published_at # NoTime
       /\ articles[a].deleted_at = now - 1
       /\ \A page \in Pages, page_size \in PageSizes :
            a \notin ArticleList("alice", page, page_size)

\* C24: a feedback submission that is accepted adds exactly 1 to the
\* article's helpful_count when helpful is true and exactly 1 to its
\* not_helpful_count when helpful is false, and leaves the other counter and
\* every other article as they were; so after n helpful and m not-helpful
\* submissions the counters stand at their initial values plus n and plus m.
C24_FeedbackCountsByOne ==
  [][(response'.op = "kb_feedback" /\ response'.code = 200) =>
       \A u \in KbUsers, pk \in ArticleIds, helpful \in Helpfuls :
         ArticleFeedback(u, pk, helpful) =>
           /\ DOMAIN articles' = DOMAIN articles
           /\ articles'[pk].helpful_count =
                articles[pk].helpful_count + (IF helpful = "true" THEN 1 ELSE 0)
           /\ articles'[pk].not_helpful_count =
                articles[pk].not_helpful_count + (IF helpful = "false" THEN 1 ELSE 0)
           /\ \A a \in DOMAIN articles \ {pk} : articles'[a] = articles[a]]_vars

\* an article that has taken one helpful and one not-helpful submission
C24_Witness ==
  /\ response = Reply("kb_feedback", 200)
  /\ \E a \in DOMAIN articles :
       articles[a].helpful_count = 1 /\ articles[a].not_helpful_count = 1

\* the status changes of ticket t chain up: every entry after the first
\* starts from the status the entry before it ended in
Chained(t) ==
  LET h == HistoryOf(t) IN
  \A i \in 2..Len(h) : h[i].from_status = h[i - 1].to_status

\* the ticket carries the status its last history entry ended in (the status
\* it was created with when it has none)
EndsAtLast(t) ==
  LET h == HistoryOf(t) IN
  tickets[t].status = IF h = << >> THEN "new" ELSE h[Len(h)].to_status

\* C25: whichever way two concurrent status-change requests on one ticket
\* interleave, once both have been answered each history entry's from_status
\* is the to_status of the entry before it and the ticket's status is the
\* to_status of the last entry.
C25_ConsistentHistoryUnderRace ==
  (\A w \in Workers : inflight[w].pc \in {"idle", "done"}) =>
    \A t \in DOMAIN tickets : Chained(t) /\ EndsAtLast(t)

\* C26: with a single status-change request at work, once it has ended, by
\* its answer or by a failure between its two writes, no history entry stands
\* for a status the ticket does not carry and the ticket carries no status
\* change that has no history entry.
C26_HistoryAndTicketOneUnit ==
  \A w \in Workers :
    (/\ inflight[w].pc \in {"done", "failed"}
     /\ \A v \in Workers \ {w} : inflight[v].pc = "idle")
    => \A t \in DOMAIN tickets : EndsAtLast(t)

\* C27: a request that would mutate a ticket (field update, assign, status
\* change, comment, satisfaction), sent by a user who is neither staff nor
\* the ticket's requester, is answered 403 and changes no stored row.
C27_OutsiderForbidden ==
  [][\A u \in Users, t \in DOMAIN tickets :
       (/\ ~is_staff(u)
        /\ ~is_owner(u, t)
        /\ \/ \E body \in UpdateBodies : TicketUpdate(u, t, body)
           \/ \E a \in AssigneeIds, tm \in TeamIds : TicketAssign(u, t, a, tm)
           \/ \E st \in AnyStatus : TicketStatusChange(u, t, st)
           \/ \E c \in Contents, i \in InternalFlags : TicketCommentCreate(u, t, c, i)
           \/ \E r \in Ratings, c \in SatComments : TicketSatisfaction(u, t, r, c))
       => /\ response'.code = 403
          /\ UNCHANGED <<tickets, history, comments, sla>>]_vars

\* the step has notified the recipients of an event: each of them whose
\* in-app toggle for the type is on has a new row of that type for ticket t
Dispatched(recipients, type, t) ==
  \A u \in Members(recipients) :
    should_send_inapp(u, type) =>
      \E i \in NewRows :
        /\ notifications'[i].recipient = u
        /\ notifications'[i].type = type
        /\ notifications'[i].related_object_id = t

\* C28: a lifecycle request that is accepted has dispatched its event by the
\* time it answers: create dispatches ticket_created, assign dispatches
\* ticket_assigned (and ticket_status_changed when it moves the ticket from
\* new to assigned), a status change that changes the status dispatches
\* ticket_status_changed, a new comment dispatches ticket_comment.
C28_EventsDispatched ==
  [][response'.code \in {200, 201} =>
       /\ \A u \in Users, p \in DeskPriorities :
            TicketCreate(u, p) =>
              Dispatched(CreatedRecipients(u), "ticket_created", Len(tickets'))
       /\ \A u \in Users, t \in DOMAIN tickets :
            /\ \A a \in AssigneeIds, tm \in TeamIds :
                 TicketAssign(u, t, a, tm) =>
                   /\ Dispatched(AssignedRecipients(a, u), "ticket_assigned", t)
                   /\ tickets'[t].status # tickets[t].status =>
                        Dispatched(StatusRecipients(t, u), "ticket_status_changed", t)
            /\ \A st \in TicketStatus :
                 (TicketStatusChange(u, t, st) /\ tickets[t].status # st) =>
                   Dispatched(StatusRecipients(t, u), "ticket_status_changed", t)
            /\ \A c \in Contents, i \in InternalFlags :
                 TicketCommentCreate(u, t, c, i) =>
                   Dispatched(CommentRecipients(t, InternalFlag(i), u),
                              "ticket_comment", t)]_vars

\* the toggles alone decide what the step did for each recipient of the
\* event: a new row if and only if the in-app toggle is on, a call of
\* send_mail if and only if the e-mail toggle is on
Decided(recipients, type, t) ==
  \A u \in Members(recipients) :
    /\ (\E i \in NewRows : /\ notifications'[i].recipient = u
                            /\ notifications'[i].type = type
                            /\ notifications'[i].related_object_id = t)
       <=> PrefKey(type) \in prefs[u].inapp
    /\ (\E i \in NewMails : /\ outbox'[i].to = u
                             /\ outbox'[i].type = type
                             /\ outbox'[i].related_object_id = t)
       <=> PrefKey(type) \in prefs[u].email

\* C29: in every dispatch, each recipient gets a Notification row if and only
\* if their in-app toggle for the event type is on, and an e-mail is
\* attempted if and only if their e-mail toggle is on, whatever the other
\* toggle says and whatever the other recipients have chosen.
C29_PreferencesDecide ==
  [][\A t \in DOMAIN tickets :
       /\ \A creator \in Users :
            NotifyTicketCreated(t, creator) =>
              Decided(CreatedRecipients(creator), "ticket_created", t)
       /\ \A assignee \in AssigneeIds, assigner \in Users :
            NotifyTicketAssigned(t, assignee, assigner) =>
              Decided(AssignedRecipients(assignee, assigner), "ticket_assigned", t)
       /\ \A changed_by \in Users :
            NotifyTicketStatusChanged(t, changed_by) =>
              Decided(StatusRecipients(t, changed_by), "ticket_status_changed", t)
       /\ \A internal \in BOOLEAN, commenter \in Users :
            NotifyNewComment(t, internal, commenter) =>
              Decided(CommentRecipients(t, internal, commenter), "ticket_comment", t)
       /\ \A warning_type \in {"warning", "breached"} :
            NotifySlaWarning(t, warning_type) =>
              Decided(SlaRecipients(t), SlaType(warning_type), t)]_vars

\* after a dispatch: one user with the in-app toggles off was sent the mail
\* and has no row, while another recipient has a row and a mail
C29_Witness ==
  /\ notifications # << >>
  /\ \E u \in Users :
       /\ prefs[u].inapp = {}
       /\ \E i \in DOMAIN outbox : outbox[i].to = u
       /\ \A i \in DOMAIN notifications : notifications[i].recipient # u
       /\ \E v \in Users \ {u} :
            /\ \E i \in DOMAIN notifications : notifications[i].recipient = v
            /\ \E i \in DOMAIN outbox : outbox[i].to = v

\* C30: in every dispatch, a recipient whose send_mail call fails still has
\* the Notification row, with email_sent false, when their in-app toggle is
\* on; every other recipient is processed all the same; and a row carries
\* email_sent true only when the mail to its recipient was delivered.
C30_FailedMailKeepsRow ==
  [][(notifications' # notifications \/ outbox' # outbox) =>
       /\ \A i \in NewMails :
            (~outbox'[i].delivered /\ PrefKey(outbox'[i].type) \in prefs[outbox'[i].to].inapp)
            => \E j \in NewRows :
                 /\ notifications'[j].recipient = outbox'[i].to
                 /\ notifications'[j].type = outbox'[i].type
                 /\ ~notifications'[j].email_sent
       /\ \A j \in NewRows :
            /\ notifications'[j].email_sent =>
                 /\ notifications'[j].recipient \notin undeliverable
                 /\ \E i \in NewMails : /\ outbox'[i].to = notifications'[j].recipient
                                         /\ outbox'[i].delivered
            /\ notifications'[j].recipient \in undeliverable =>
                 ~notifications'[j].email_sent
       /\ \A t \in DOMAIN tickets, creator \in Users :
            NotifyTicketCreated(t, creator) =>
              Dispatched(CreatedRecipients(creator), "ticket_created", t)
       /\ \A t \in DOMAIN tickets, warning_type \in {"warning", "breached"} :
            NotifySlaWarning(t, warning_type) =>
              Dispatched(SlaRecipients(t), SlaType(warning_type), t)]_vars

\* a dispatch in which the mail to one recipient failed: their row is there
\* with email_sent false, and a recipient handled after them has a row whose
\* mail was delivered
C30_Witness ==
  \E i, j \in DOMAIN notifications :
    /\ i < j
    /\ notifications[i].recipient \in undeliverable
    /\ PrefKey(notifications[i].type) \in prefs[notifications[i].recipient].email
    /\ ~notifications[i].email_sent
    /\ notifications[j].type = notifications[i].type
    /\ notifications[j].related_object_id = notifications[i].related_object_id
    /\ notifications[j].email_sent
    /\ \E k \in DOMAIN outbox : outbox[k].to = notifications[j].recipient /\ outbox[k].delivered
====
